---- MODULE Spec2Model ----
(***************************************************************************)
(* houdini: the document scrubber (src/cmd/utils/scrubSelection.ts) and    *)
(* the typescript generator (typescriptGenerator, generateOperationType-   *)
(* Defs, generateFragmentTypeDefs).                                        *)
(*                                                                         *)
(* Three specifications share the module:                                  *)
(*   SpecScrub  scrubSelection applied to a bounded family of parsed       *)
(*              operation documents;                                       *)
(*   SpecTypes  generateOperationTypeDefs applied to every operation       *)
(*              definition of a bounded family, under every schema;        *)
(*   Spec       typescriptGenerator as the cooperative tasks the event     *)
(*              loop interleaves, run twice over the same input.           *)
(***************************************************************************)
EXTENDS Naturals, Sequences, FiniteSets, TLC

VARIABLES
    document,       \* scrubSelection: the document argument
    scrubPc,        \* scrubSelection: "call" before the call, "done" after
    scrubbed,       \* scrubSelection: the returned document
    definition,     \* generateOperationTypeDefs: the definition argument
    typesPc,        \* generateOperationTypeDefs: "call", then "done"
    program,        \* generateOperationTypeDefs: the outcome of the call
    schema,         \* config.schema
    docs,           \* typescriptGenerator: the docs argument
    run,            \* "first" or "second": the pipeline is run twice over docs
    main,           \* typescriptGenerator: where the function is suspended
    failure,        \* the error typescriptGenerator rejected with, or "none"
    typeDefinitionsFile, \* the text codegen resolved with, or Null
    task,           \* per document: where its callback of docs.map is suspended
    outcome,        \* per document: the promise the synthesizer returned
    typePaths,      \* the list the callbacks push their paths to
    typeIndex,      \* the index program, once built
    files,          \* the file system: path -> content
    written,        \* the paths written during the current run
    lateWrites,     \* the documents whose file was written after the run failed
    prevIndex       \* the index manifest the first run wrote, in the second run

scrubVars == <<document, scrubPc, scrubbed>>

typesVars == <<definition, typesPc, program>>

runVars ==
    <<docs, run, main, failure, typeDefinitionsFile, task, outcome, typePaths,
      typeIndex, files, written, lateWrites, prevIndex>>

\* What a run of typescriptGenerator never changes.
fixedVars == <<scrubVars, typesVars, schema, docs>>

vars == <<scrubVars, typesVars, schema, runVars>>

\* The absent node: what a visitor returns to delete a node, and the value of
\* a result that does not exist yet.
Null == [kind |-> "null"]

(***************************************************************************)
(* GraphQL AST nodes (the graphql package's node shapes, reduced to the    *)
(* fields the visitors of scrubSelection can reach).                       *)
(***************************************************************************)
Variable(n) == [kind |-> "Variable", name |-> n]

IntValue == [kind |-> "IntValue", value |-> "1"]

ListValue(vs) == [kind |-> "ListValue", values |-> vs]

Argument(v) == [kind |-> "Argument", name |-> "x", value |-> v]

Directive(n, as) == [kind |-> "Directive", name |-> n, arguments |-> as]

Field(as, ds, ss) ==
    [kind |-> "Field", name |-> "f", arguments |-> as, directives |-> ds,
     selectionSet |-> ss]

FragmentSpread(ds) ==
    [kind |-> "FragmentSpread", name |-> "Frag", directives |-> ds]

InlineFragment(ds, ss) ==
    [kind |-> "InlineFragment", directives |-> ds, selectionSet |-> ss]

VariableDefinition(n, ds) ==
    [kind |-> "VariableDefinition", variable |-> Variable(n), directives |-> ds]

OperationDefinition(n, op, vds, ds, ss) ==
    [kind |-> "OperationDefinition", operation |-> op, name |-> n,
     variableDefinitions |-> vds, directives |-> ds, selectionSet |-> ss]

FragmentDefinition(n, tc, ds, ss) ==
    [kind |-> "FragmentDefinition", name |-> n, typeCondition |-> tc,
     variableDefinitions |-> <<>>, directives |-> ds, selectionSet |-> ss]

Document(defs) == [kind |-> "Document", definitions |-> defs]

(***************************************************************************)
(* The bounded family of input documents.  Every document is one that      *)
(* graphql.parse produces: the directives of a variable definition are     *)
(* constant (no variable can occur under them), a location carries each    *)
(* directive name at most once, and an operation declares each variable    *)
(* at most once.                                                           *)
(***************************************************************************)
\* The most variable definitions an operation declares.
MaxVarDefs == 1

VarNames == {"a", "b"}

\* config.isInternalDirective is a predicate on directive nodes; "list" stands
\* for every directive it accepts and "include" for every directive it rejects.
InternalNames == {"list"}

DirectiveNames == {"list", "include"}

VariableValues == {Variable(n) : n \in VarNames}

Values == VariableValues \cup {ListValue(<<Variable(n)>>) : n \in VarNames}

ArgLists == {<<>>} \cup {<<Argument(v)>> : v \in Values}

VariableArgLists == {<<>>} \cup {<<Argument(v)>> : v \in VariableValues}

Directives == {Directive(n, as) : n \in DirectiveNames, as \in ArgLists}

\* The directives whose argument, if any, is a variable itself.
PlainDirectives == {Directive(n, as) : n \in DirectiveNames, as \in VariableArgLists}

\* The directives of a variable definition: their arguments are constants.
ConstDirectives == {Directive(n, <<Argument(IntValue)>>) : n \in DirectiveNames}

\* At most one directive at the location.
OptDirective == {<<>>} \cup {<<d>> : d \in Directives}

OptPlainDirective == {<<>>} \cup {<<d>> : d \in PlainDirectives}

OptConstDirective == {<<>>} \cup {<<d>> : d \in ConstDirectives}

\* Up to two directives at the location, of different names.
DirLists ==
    OptDirective \cup
    {p \in {<<d, e>> : d \in PlainDirectives, e \in PlainDirectives} :
        p[1].name # p[2].name}

InnerFields ==
    {Field(<<>>, <<>>, <<>>),
     Field(<<Argument(Variable("a"))>>, <<>>, <<>>),
     Field(<<>>, <<Directive("list", <<Argument(Variable("a"))>>)>>, <<>>),
     Field(<<>>, <<Directive("include", <<Argument(Variable("b"))>>)>>, <<>>)}

Selections ==
    {Field(as, ds, <<>>) : as \in ArgLists, ds \in DirLists}
    \cup {Field(<<>>, ds, <<f>>) : ds \in OptDirective, f \in InnerFields}
    \cup {FragmentSpread(ds) : ds \in OptDirective}
    \cup {InlineFragment(ds, <<f>>) : ds \in OptDirective, f \in InnerFields}

RECURSIVE VarDefLists(_)
\* The variable-definition lists of at most k definitions.
VarDefLists(k) ==
    IF k = 0 THEN {<<>>}
    ELSE LET shorter == VarDefLists(k - 1)
         IN  shorter \cup
             {Append(l, VariableDefinition(n, ds)) :
                 l \in {l \in shorter : Len(l) = k - 1},
                 n \in VarNames, ds \in OptConstDirective}

DistinctNames(l) ==
    \A i, j \in 1..Len(l) : i # j => l[i].variable.name # l[j].variable.name

\* What follows the operation in the document: nothing, or a fragment that
\* uses one variable of the operation in a field argument and the other under
\* an internal directive.
FollowingDefinitions ==
    {<<>>,
     <<FragmentDefinition("Frag", "T", <<>>,
         <<Field(<<Argument(Variable("a"))>>,
                 <<Directive("list", <<Argument(Variable("b"))>>)>>, <<>>)>>)>>}

\* The documents whose operation declares at most k variables.
Documents(k) ==
    {Document(<<OperationDefinition("Q", "query", vds, ds, <<s>>)>> \o rest) :
        vds \in {l \in VarDefLists(k) : DistinctNames(l)},
        ds \in OptPlainDirective, s \in Selections, rest \in FollowingDefinitions}

(***************************************************************************)
(* scrubSelection, first visit: graphql.visit with an enter function for   *)
(* Directive and one for Variable.  An enter function that returns null    *)
(* deletes the node and the traversal does not descend into it; one that   *)
(* returns nothing leaves the node as it is.                               *)
(***************************************************************************)
isInternalDirective(node) == node.name \in InternalNames

\* Directive(node): null for an internal directive, the node otherwise.
DirectiveEnterKeepAll(node) == node

DirectiveEnter(node) == IF isInternalDirective(node) THEN Null ELSE node

\* Variable(node, _key, parent): the names added to usedVariableNames.  parent
\* is the kind of the parent node, or "Array" when the node sits in a list.
VariableEnterCountDefining(node, parent) == {node.name}

VariableEnter(node, parent) ==
    LET variableIsBeingDefined == parent # "Array" /\ parent = "VariableDefinition"
    IN  IF ~variableIsBeingDefined THEN {node.name} ELSE {}

\* A list of nodes after its visit: the deleted entries are spliced out.
Splice(nodes) == SelectSeq(nodes, LAMBDA n : n # Null)

SeqUnion(f) == UNION {f[i] : i \in DOMAIN f}

\* The traversal of a value: the names its Variable nodes add.
UsedInValue(v, parent) ==
    IF v.kind = "Variable" THEN VariableEnter(v, parent)
    ELSE IF v.kind = "ListValue"
         THEN SeqUnion([i \in DOMAIN v.values |-> VariableEnter(v.values[i], "Array")])
         ELSE {}

\* The traversal of a directive list: the list without the deleted
\* directives, and the names added by the directives that were descended into.
VisitDirectives(ds) == Splice([i \in DOMAIN ds |-> DirectiveEnter(ds[i])])

UsedInArguments(as) ==
    SeqUnion([i \in DOMAIN as |-> UsedInValue(as[i].value, "Argument")])

UsedInDirectives(ds) ==
    SeqUnion([i \in DOMAIN ds |->
        IF DirectiveEnter(ds[i]) = Null THEN {}
        ELSE UsedInArguments(ds[i].arguments)])

RECURSIVE VisitSelection(_)
\* The traversal of a selection: the selection with the internal directives
\* deleted at every depth.
VisitSelection(s) ==
    IF s.kind = "Field"
    THEN [s EXCEPT !.directives = VisitDirectives(@),
                   !.selectionSet = [i \in DOMAIN @ |-> VisitSelection(@[i])]]
    ELSE IF s.kind = "InlineFragment"
    THEN [s EXCEPT !.directives = VisitDirectives(@),
                   !.selectionSet = [i \in DOMAIN @ |-> VisitSelection(@[i])]]
    ELSE [s EXCEPT !.directives = VisitDirectives(@)]

RECURSIVE UsedInSelection(_)
UsedInSelection(s) ==
    UsedInDirectives(s.directives)
    \cup (IF s.kind = "Field" THEN UsedInArguments(s.arguments) ELSE {})
    \cup (IF s.kind \in {"Field", "InlineFragment"}
          THEN SeqUnion([i \in DOMAIN s.selectionSet |->
                            UsedInSelection(s.selectionSet[i])])
          ELSE {})

VisitVariableDefinition(vd) == [vd EXCEPT !.directives = VisitDirectives(@)]

UsedInVariableDefinition(vd) ==
    VariableEnter(vd.variable, "VariableDefinition")
    \cup UsedInDirectives(vd.directives)

VisitDefinition(def) ==
    [def EXCEPT
        !.variableDefinitions = [i \in DOMAIN @ |-> VisitVariableDefinition(@[i])],
        !.directives = VisitDirectives(@),
        !.selectionSet = [i \in DOMAIN @ |-> VisitSelection(@[i])]]

UsedInDefinition(def) ==
    SeqUnion([i \in DOMAIN def.variableDefinitions |->
                 UsedInVariableDefinition(def.variableDefinitions[i])])
    \cup UsedInDirectives(def.directives)
    \cup SeqUnion([i \in DOMAIN def.selectionSet |->
                      UsedInSelection(def.selectionSet[i])])

\* documentWithoutInternalDirectives
WithoutInternalDirectives(doc) ==
    [doc EXCEPT !.definitions = [i \in DOMAIN @ |-> VisitDefinition(@[i])]]

\* usedVariableNames after the first visit
UsedVariableNames(doc) ==
    SeqUnion([i \in DOMAIN doc.definitions |-> UsedInDefinition(doc.definitions[i])])

(***************************************************************************)
(* scrubSelection, second visit: an enter function for VariableDefinition. *)
(***************************************************************************)
VariableDefinitionEnterKeepAll(node, usedVariableNames) == node

VariableDefinitionEnter(node, usedVariableNames) ==
    LET name == node.variable.name
    IN  IF name \notin usedVariableNames THEN Null ELSE node

PruneDefinition(def, usedVariableNames) ==
    [def EXCEPT !.variableDefinitions =
        Splice([i \in DOMAIN @ |-> VariableDefinitionEnter(@[i], usedVariableNames)])]

scrubSelection(doc) ==
    LET usedVariableNames == UsedVariableNames(doc)
        documentWithoutInternalDirectives == WithoutInternalDirectives(doc)
    IN  [documentWithoutInternalDirectives EXCEPT
            !.definitions = [i \in DOMAIN @ |-> PruneDefinition(@[i], usedVariableNames)]]

(***************************************************************************)
(* The typed program: the recast AST that generateOperationTypeDefs and    *)
(* generateFragmentTypeDefs build.                                         *)
(***************************************************************************)
\* config.internalTypeDefinitionFileName
internalTypeDefinitionFileName == "graphql"

\* export const fragmentKey
fragmentKey == "$fragments"

TSTypeReference(n) == [type |-> "TSTypeReference", typeName |-> n]

TSNullKeyword == [type |-> "TSNullKeyword"]

TSUndefinedKeyword == [type |-> "TSUndefinedKeyword"]

TSLiteralTrue == [type |-> "TSLiteralType", literal |-> TRUE]

TSUnionType(ts) == [type |-> "TSUnionType", types |-> ts]

TSTypeLiteral(ms) == [type |-> "TSTypeLiteral", members |-> ms]

TSPropertySignature(key, annotation, optional) ==
    [type |-> "TSPropertySignature", key |-> key, typeAnnotation |-> annotation,
     optional |-> optional, readonly |-> FALSE]

readonlyProperty(prop) == [prop EXCEPT !.readonly = TRUE]

ExportAlias(id, annotation) ==
    [type |-> "ExportNamedDeclaration", id |-> id, typeAnnotation |-> annotation]

internalTypeImport(identifier) ==
    [type |-> "ImportDeclaration", id |-> identifier,
     source |-> "./" \o internalTypeDefinitionFileName, importKind |-> "type"]

\* operation[0].toUpperCase() + operation.slice(1)
Capitalized(operation) ==
    CASE operation = "query" -> "Query"
      [] operation = "mutation" -> "Mutation"
      [] operation = "subscription" -> "Subscription"

\* The outcome of an async function: the program it resolves with, or the
\* error it rejects with.
Resolved(body) == [ok |-> TRUE, body |-> body]

Rejected(message) == [ok |-> FALSE, error |-> message]

\* config.schema.getQueryType(), getMutationType(), getSubscriptionType():
\* whether the schema declares the root type of the operation.
RootType(sch, operation) == operation \in sch.roots

ResultAnnotationAlwaysUnion(def, shapeTypeName) ==
    TSUnionType(<<TSTypeReference(shapeTypeName), TSUndefinedKeyword>>)

\* The annotation of the root type's result field.
ResultAnnotation(def, shapeTypeName) ==
    IF def.operation = "mutation"
    THEN TSTypeReference(shapeTypeName)
    ELSE TSUnionType(<<TSTypeReference(shapeTypeName), TSUndefinedKeyword>>)

AfterLoadDeclsAnyOperation(def, afterLoadTypeName, properties) ==
    <<ExportAlias(afterLoadTypeName, TSTypeLiteral(properties))>>

\* The declaration of the afterLoad type: pushed for a query only.
AfterLoadDecls(def, afterLoadTypeName, properties) ==
    IF def.operation = "query"
    THEN <<ExportAlias(afterLoadTypeName, TSTypeLiteral(properties))>>
    ELSE <<>>

generateOperationTypeDefs(sch, def) ==
    LET inputTypeName == def.name \o "$input"
        shapeTypeName == def.name \o "$result"
        afterLoadTypeName == def.name \o "$afterLoad"
        hasInputs == Len(def.variableDefinitions) > 0
        shapeType == def.name \o Capitalized(def.operation)
        inputType == shapeType \o "Variables"
        inputDecls ==
            IF hasInputs
            THEN <<internalTypeImport(inputType),
                   ExportAlias(inputTypeName, TSTypeReference(inputType))>>
            ELSE <<>>
        rootDecl ==
            ExportAlias(def.name, TSTypeLiteral(<<
                readonlyProperty(TSPropertySignature("input",
                    IF hasInputs THEN TSTypeReference(inputTypeName)
                    ELSE TSNullKeyword, FALSE)),
                readonlyProperty(TSPropertySignature("result",
                    ResultAnnotation(def, shapeTypeName), FALSE))>>))
        resultDecl == ExportAlias(shapeTypeName, TSTypeReference(shapeType))
        dataProperty ==
            readonlyProperty(TSPropertySignature("data",
                TSTypeLiteral(<<readonlyProperty(TSPropertySignature(def.name,
                    TSTypeReference(shapeTypeName), FALSE))>>), FALSE))
        inputProperty ==
            readonlyProperty(TSPropertySignature("input",
                TSTypeLiteral(<<readonlyProperty(TSPropertySignature(def.name,
                    TSTypeReference(inputTypeName), FALSE))>>), FALSE))
        properties ==
            IF hasInputs THEN <<inputProperty, dataProperty>> ELSE <<dataProperty>>
    IN  IF ~RootType(sch, def.operation)
        THEN Rejected("Could not find root type for document")
        ELSE Resolved(<<internalTypeImport(shapeType)>> \o inputDecls
                      \o <<rootDecl, resultDecl>>
                      \o AfterLoadDecls(def, afterLoadTypeName, properties))

generateFragmentTypeDefs(sch, def) ==
    IF def = Null
    THEN Rejected("TypeError")
    ELSE LET propTypeName == def.name
             shapeTypeName == def.name \o "$data"
             internalType == def.name \o "Fragment"
         IN  IF def.typeCondition \notin sch.types
             THEN Rejected("Should not get here")
             ELSE Resolved(<<
                 internalTypeImport(internalType),
                 ExportAlias(propTypeName, TSTypeLiteral(<<
                     readonlyProperty(TSPropertySignature("shape",
                         TSTypeReference(shapeTypeName), TRUE)),
                     readonlyProperty(TSPropertySignature(fragmentKey,
                         TSTypeLiteral(<<TSPropertySignature(propTypeName,
                             TSLiteralTrue, FALSE)>>), FALSE))>>)),
                 ExportAlias(shapeTypeName, TSTypeReference(internalType))>>)

(***************************************************************************)
(* The inputs of generateOperationTypeDefs: every operation kind, with     *)
(* and without variables, under every choice of declared root types.       *)
(***************************************************************************)
\* The most variables an operation definition declares.
MaxVariables == 2

OperationKinds == {"query", "mutation", "subscription"}

OperationNames == {"Hello", "DoThing"}

TypeNames == {"User"}

Schemas == [roots : SUBSET OperationKinds, types : SUBSET TypeNames]

VariableDefinitions(k) == [i \in 1..k |-> VariableDefinition("v" \o ToString(i), <<>>)]

PlainSelectionSet == <<Field(<<>>, <<>>, <<>>)>>

OperationDefinitions ==
    {OperationDefinition(n, op, VariableDefinitions(k), <<>>, PlainSelectionSet) :
        n \in OperationNames, op \in OperationKinds, k \in 0..MaxVariables}

(***************************************************************************)
(* Paths.  A path is the sequence of its tokens: "/" , "." and the runs of *)
(* other characters between them.                                          *)
(***************************************************************************)
\* config.rootDir, one token as no path operation looks into it.
rootDir == <<"$houdini">>

\* config.internalTypeDefinitionFile
internalTypeDefinitionFile ==
    rootDir \o <<"/", internalTypeDefinitionFileName, ".", "d", ".", "ts">>

\* config.typeIndexPath
typeIndexPath == rootDir \o <<"/", "index", ".", "d", ".", "ts">>

\* config.documentName: the name of the first definition of the document.
documentName(originalDocument) == originalDocument.definitions[1].name

\* config.artifactTypePath: <rootDir>/artifacts/<documentName>.d.ts
artifactTypePath(originalDocument) ==
    rootDir \o <<"/", "artifacts", "/", documentName(originalDocument), ".", "d", ".", "ts">>

IsNamePart(token) == token \notin {"/", "."}

\* .replace(/\.[^/.]+\.[^/.]+$/, ''): the two extensions at the end are cut.
StripTypeExtension(path) ==
    LET n == Len(path)
    IN  IF /\ n >= 4
           /\ path[n - 3] = "." /\ IsNamePart(path[n - 2])
           /\ path[n - 1] = "." /\ IsNamePart(path[n])
        THEN SubSeq(path, 1, n - 4)
        ELSE path

\* path.resolve(path, '..'): the path without its last segment.
ParentDirectory(path) ==
    LET slashes == {i \in DOMAIN path : path[i] = "/"}
        last == CHOOSE i \in slashes : \A j \in slashes : j <= i
    IN  IF slashes = {} THEN <<>> ELSE SubSeq(path, 1, last - 1)

\* path.relative(from, to) for a path to that lies under the directory from;
\* the paths of a run all lie under the directory of the index.
Relative(from, to) ==
    IF Len(to) > Len(from) + 1 /\ SubSeq(to, 1, Len(from) + 1) = from \o <<"/">>
    THEN SubSeq(to, Len(from) + 2, Len(to))
    ELSE to

\* path.relative(path.resolve(config.typeIndexPath, '..'), typePath)
RelativeToIndex(typePath) == Relative(ParentDirectory(typeIndexPath), typePath)

ExportAllDeclaration(source) == [type |-> "ExportAllDeclaration", source |-> source]

FixedExports ==
    <<ExportAllDeclaration(<<".", "/", "runtime">>),
      ExportAllDeclaration(<<".", "/", "stores">>)>>

\* AST.program(body)
Program(body) == [type |-> "Program", body |-> body]

ComposeIndexFixedFirst(paths) ==
    Program(FixedExports \o
    [i \in DOMAIN paths |->
        ExportAllDeclaration(<<".", "/">> \o StripTypeExtension(RelativeToIndex(paths[i])))])

\* AST.program(typePaths.map(...).concat([runtime, stores]))
ComposeIndexProgram(paths) ==
    Program([i \in DOMAIN paths |->
        ExportAllDeclaration(<<".", "/">> \o StripTypeExtension(RelativeToIndex(paths[i])))]
    \o FixedExports)

(***************************************************************************)
(* typescriptGenerator.                                                    *)
(***************************************************************************)
\* codegen(...): the third-party generator, a function of the scrubbed
\* documents and the schema it is given.
codegen(ds, sch) ==
    LET stored == SelectSeq(ds, LAMBDA doc : doc.generateStore)
    IN  [documents |-> [i \in DOMAIN stored |-> scrubSelection(stored[i].document)],
         schema |-> sch]

\* originalDocument.definitions.find(...): the first operation or fragment
\* definition of that name, or undefined.
FindDefinition(originalDocument, name) ==
    LET hits == SelectSeq(originalDocument.definitions,
                    LAMBDA def : def.kind \in {"OperationDefinition", "FragmentDefinition"}
                                 /\ def.name = name)
    IN  IF hits = <<>> THEN Null ELSE hits[1]

\* The promise the callback of docs.map awaits for its program.
Synthesize(sch, doc) ==
    LET def == FindDefinition(doc.originalDocument, doc.name)
    IN  IF def # Null /\ def.kind = "OperationDefinition"
        THEN generateOperationTypeDefs(sch, def)
        ELSE generateFragmentTypeDefs(sch, def)

\* recast.print(program).code
PrintProgram(prog) == [code |-> prog.body]

WriteTo(fs, path, content) ==
    [p \in DOMAIN fs \cup {path} |-> IF p = path THEN content ELSE fs[p]]

Fulfilled(t) == t \in {"returned", "done"}

PromiseRace(tasks) ==
    IF \E d \in DOMAIN tasks : tasks[d] = "failed" THEN "rejected"
    ELSE IF \E d \in DOMAIN tasks : Fulfilled(tasks[d]) THEN "fulfilled"
    ELSE "pending"

PromiseAllSettled(tasks) ==
    IF \A d \in DOMAIN tasks : Fulfilled(tasks[d]) \/ tasks[d] = "failed"
    THEN "fulfilled"
    ELSE "pending"

\* Promise.all over the callbacks' promises: rejected as soon as one is,
\* fulfilled when all are.
PromiseAll(tasks) ==
    IF \E d \in DOMAIN tasks : tasks[d] = "failed" THEN "rejected"
    ELSE IF \A d \in DOMAIN tasks : Fulfilled(tasks[d]) THEN "fulfilled"
    ELSE "pending"

\* The microtask queue is empty: no callback waits to resume from the await of
\* its program, and typescriptGenerator does not wait to resume from a settled
\* Promise.all.  File-system completions are delivered only then.
Drained ==
    /\ \A d \in DOMAIN task : task[d] # "awaitProgram"
    /\ ~(main = "waiting" /\ PromiseAll(task) # "pending")

\* await codegen(...) resolves.
CodegenResolves ==
    /\ main = "codegen"
    /\ typeDefinitionsFile' = codegen(docs, schema)
    /\ main' = "writeInternal"
    /\ UNCHANGED <<fixedVars, run, failure, task, outcome, typePaths, typeIndex, files,
                   written, lateWrites, prevIndex>>

\* await codegen(...) rejects: typescriptGenerator rejects with the error.
CodegenRejects ==
    /\ main = "codegen"
    /\ main' = "failed"
    /\ failure' = "codegen"
    /\ UNCHANGED <<fixedVars, run, typeDefinitionsFile, task, outcome, typePaths,
                   typeIndex, files, written, lateWrites, prevIndex>>

\* fs.writeFile(config.internalTypeDefinitionFile, ...) completes.
InternalFileWritten ==
    /\ main = "writeInternal"
    /\ files' = WriteTo(files, internalTypeDefinitionFile, typeDefinitionsFile)
    /\ written' = written \cup {internalTypeDefinitionFile}
    /\ main' = "launch"
    /\ UNCHANGED <<fixedVars, run, failure, typeDefinitionsFile, task, outcome,
                   typePaths, typeIndex, lateWrites, prevIndex>>

InternalFileWriteFails ==
    /\ main = "writeInternal"
    /\ main' = "failed"
    /\ failure' = "write"
    /\ UNCHANGED <<fixedVars, run, typeDefinitionsFile, task, outcome, typePaths,
                   typeIndex, files, written, lateWrites, prevIndex>>

\* typescriptGenerator resumes from the await of fs.writeFile: typePaths = [],
\* and docs.map runs every callback up to its first await.
Launch ==
    /\ main = "launch"
    /\ typePaths' = <<>>
    /\ task' = [d \in DOMAIN docs |->
                   IF ~docs[d].generateArtifact THEN "returned" ELSE "awaitProgram"]
    /\ outcome' = [d \in DOMAIN docs |->
                      IF ~docs[d].generateArtifact THEN Null
                      ELSE Synthesize(schema, docs[d])]
    /\ main' = "waiting"
    /\ UNCHANGED <<fixedVars, run, failure, typeDefinitionsFile, typeIndex, files,
                   written, lateWrites, prevIndex>>

\* The callback of document d resumes from the await of its program, in the
\* order the callbacks were suspended: it throws if the synthesizer rejected,
\* and calls writeFile otherwise.
TaskResume(d) ==
    /\ task[d] = "awaitProgram"
    /\ \A e \in DOMAIN task : e < d => task[e] # "awaitProgram"
    /\ task' = [task EXCEPT ![d] = IF outcome[d].ok THEN "writing" ELSE "failed"]
    /\ UNCHANGED <<fixedVars, run, main, failure, typeDefinitionsFile, outcome,
                   typePaths, typeIndex, files, written, lateWrites, prevIndex>>

\* writeFile(typeDefPath, ...) of document d completes, and the callback
\* pushes its path.
TaskFileWritten(d) ==
    /\ task[d] = "writing"
    /\ Drained
    /\ LET typeDefPath == artifactTypePath(docs[d].originalDocument)
       IN  /\ files' = WriteTo(files, typeDefPath, PrintProgram(outcome[d]))
           /\ written' = written \cup {typeDefPath}
           /\ typePaths' = Append(typePaths, typeDefPath)
    /\ task' = [task EXCEPT ![d] = "done"]
    /\ lateWrites' = IF main = "failed" THEN lateWrites \cup {d} ELSE lateWrites
    /\ UNCHANGED <<fixedVars, run, main, failure, typeDefinitionsFile, outcome,
                   typeIndex, prevIndex>>

\* writeFile(typeDefPath, ...) of document d fails: the callback throws.
TaskFileWriteFails(d) ==
    /\ task[d] = "writing"
    /\ Drained
    /\ task' = [task EXCEPT ![d] = "failed"]
    /\ UNCHANGED <<fixedVars, run, main, failure, typeDefinitionsFile, outcome,
                   typePaths, typeIndex, files, written, lateWrites, prevIndex>>

\* await Promise.all(...) rejects: typescriptGenerator rejects with the error.
AwaitRejects ==
    /\ main = "waiting"
    /\ \A d \in DOMAIN task : task[d] # "awaitProgram"
    /\ PromiseAll(task) = "rejected"
    /\ main' = "failed"
    /\ failure' = "task"
    /\ UNCHANGED <<fixedVars, run, typeDefinitionsFile, task, outcome, typePaths,
                   typeIndex, files, written, lateWrites, prevIndex>>

\* await Promise.all(...) resolves: the index program is built from typePaths
\* and writeFile(config.typeIndexPath, ...) is called.
ComposeIndex ==
    /\ main = "waiting"
    /\ PromiseAll(task) = "fulfilled"
    /\ typeIndex' = ComposeIndexProgram(typePaths)
    /\ main' = "writeIndex"
    /\ UNCHANGED <<fixedVars, run, failure, typeDefinitionsFile, task, outcome,
                   typePaths, files, written, lateWrites, prevIndex>>

\* writeFile(config.typeIndexPath, ...) completes.
IndexWritten ==
    /\ main = "writeIndex"
    /\ files' = WriteTo(files, typeIndexPath, PrintProgram(typeIndex))
    /\ written' = written \cup {typeIndexPath}
    /\ main' = "done"
    /\ UNCHANGED <<fixedVars, run, failure, typeDefinitionsFile, task, outcome,
                   typePaths, typeIndex, lateWrites, prevIndex>>

IndexWriteFails ==
    /\ main = "writeIndex"
    /\ main' = "failed"
    /\ failure' = "write"
    /\ UNCHANGED <<fixedVars, run, typeDefinitionsFile, task, outcome, typePaths,
                   typeIndex, files, written, lateWrites, prevIndex>>

\* The caller runs the pipeline again over the same docs and schema; the
\* files of the first run are still there.
Rerun ==
    /\ run = "first"
    /\ main = "done"
    /\ run' = "second"
    /\ prevIndex' = files[typeIndexPath]
    /\ main' = "codegen"
    /\ failure' = "none"
    /\ typeDefinitionsFile' = Null
    /\ task' = [d \in DOMAIN docs |-> "idle"]
    /\ outcome' = [d \in DOMAIN docs |-> Null]
    /\ typePaths' = <<>>
    /\ typeIndex' = Null
    /\ written' = {}
    /\ lateWrites' = {}
    /\ UNCHANGED <<fixedVars, files>>

(***************************************************************************)
(* The inputs of typescriptGenerator: up to MaxDocs collected documents,   *)
(* each of one of the shapes below, under a schema that declares every     *)
(* root type or the query type alone.                                      *)
(***************************************************************************)
\* The most documents of a run.
MaxDocs == 2

DocName(i) == "Doc" \o ToString(i)

\* A selection whose variable is used by an internal directive alone.
ListSelectionSet ==
    <<Field(<<>>, <<Directive("list", <<Argument(Variable("v1"))>>)>>, <<>>)>>

QueryOf(n) ==
    OperationDefinition(n, "query", VariableDefinitions(1), <<>>, ListSelectionSet)

MutationOf(n) ==
    OperationDefinition(n, "mutation", <<>>, <<>>, PlainSelectionSet)

FragmentOf(n) == FragmentDefinition(n, "User", <<>>, PlainSelectionSet)

\* [name, kind, document, originalDocument, generateStore, generateArtifact]
CollectedDocument(n, k, defs, store, artifact) ==
    [name |-> n, kind |-> k, document |-> Document(defs),
     originalDocument |-> Document(defs), generateStore |-> store,
     generateArtifact |-> artifact]

\* The documents the i-th place of docs is drawn from: a query (flagged for
\* both outputs, or for one of them), a mutation, a fragment, a document that
\* holds a fragment and an operation of the document's name in either order,
\* and a document that holds no definition of the document's name.
CollectedDocuments(i) ==
    LET n == DocName(i)
    IN  {CollectedDocument(n, "operation", <<QueryOf(n)>>, TRUE, TRUE),
         CollectedDocument(n, "operation", <<QueryOf(n)>>, TRUE, FALSE),
         CollectedDocument(n, "operation", <<QueryOf(n)>>, FALSE, TRUE),
         CollectedDocument(n, "operation", <<MutationOf(n)>>, TRUE, TRUE),
         CollectedDocument(n, "fragment", <<FragmentOf(n)>>, TRUE, TRUE),
         CollectedDocument(n, "operation", <<FragmentOf(n), QueryOf(n)>>, TRUE, TRUE),
         CollectedDocument(n, "fragment", <<QueryOf(n), FragmentOf(n)>>, TRUE, TRUE),
         CollectedDocument(n, "operation", <<QueryOf("Other")>>, TRUE, TRUE)}

DocLists ==
    UNION {{ds \in [1..n -> UNION {CollectedDocuments(i) : i \in 1..n}] :
               \A i \in 1..n : ds[i] \in CollectedDocuments(i)} : n \in 0..MaxDocs}

RunSchemas ==
    {[roots |-> OperationKinds, types |-> TypeNames],
     [roots |-> {"query"}, types |-> {}]}

(***************************************************************************)
(* The specifications.                                                     *)
(***************************************************************************)
IdleScrub == document = Null /\ scrubPc = "idle" /\ scrubbed = Null

IdleTypes == definition = Null /\ typesPc = "idle" /\ program = Null

IdleRun ==
    /\ docs = <<>> /\ run = "none" /\ main = "idle" /\ failure = "none"
    /\ typeDefinitionsFile = Null /\ task = <<>> /\ outcome = <<>>
    /\ typePaths = <<>> /\ typeIndex = Null /\ files = <<>> /\ written = {}
    /\ lateWrites = {} /\ prevIndex = Null

InitScrub ==
    /\ document \in Documents(MaxVarDefs)
    /\ scrubPc = "call"
    /\ scrubbed = Null
    /\ IdleTypes
    /\ schema = Null
    /\ IdleRun

Scrub ==
    /\ scrubPc = "call"
    /\ scrubbed' = scrubSelection(document)
    /\ scrubPc' = "done"
    /\ UNCHANGED <<document, typesVars, schema, runVars>>

NextScrub == Scrub

SpecScrub == InitScrub /\ [][NextScrub]_vars

InitTypes ==
    /\ definition \in OperationDefinitions
    /\ schema \in Schemas
    /\ typesPc = "call"
    /\ program = Null
    /\ IdleScrub
    /\ IdleRun

GenerateOperationTypeDefs ==
    /\ typesPc = "call"
    /\ program' = generateOperationTypeDefs(schema, definition)
    /\ typesPc' = "done"
    /\ UNCHANGED <<definition, schema, scrubVars, runVars>>

NextTypes == GenerateOperationTypeDefs

SpecTypes == InitTypes /\ [][NextTypes]_vars

Init ==
    /\ docs \in DocLists
    /\ schema \in RunSchemas
    /\ run = "first"
    /\ main = "codegen"
    /\ failure = "none"
    /\ typeDefinitionsFile = Null
    /\ task = [d \in DOMAIN docs |-> "idle"]
    /\ outcome = [d \in DOMAIN docs |-> Null]
    /\ typePaths = <<>>
    /\ typeIndex = Null
    /\ files = <<>>
    /\ written = {}
    /\ lateWrites = {}
    /\ prevIndex = Null
    /\ IdleScrub
    /\ IdleTypes

Next ==
    \/ CodegenResolves
    \/ CodegenRejects
    \/ InternalFileWritten
    \/ InternalFileWriteFails
    \/ Launch
    \/ \E d \in DOMAIN docs : TaskResume(d)
    \/ \E d \in DOMAIN docs : TaskFileWritten(d)
    \/ \E d \in DOMAIN docs : TaskFileWriteFails(d)
    \/ AwaitRejects
    \/ ComposeIndex
    \/ IndexWritten
    \/ IndexWriteFails
    \/ Rerun

Spec == Init /\ [][Next]_vars

(***************************************************************************)
(* What the properties read off a document: its directive nodes, its       *)
(* declared variables and its variable references.                         *)
(***************************************************************************)
Range(s) == {s[i] : i \in DOMAIN s}

RECURSIVE DirectivesOfSelection(_)
DirectivesOfSelection(s) ==
    Range(s.directives) \cup
    (IF s.kind \in {"Field", "InlineFragment"}
     THEN UNION {DirectivesOfSelection(c) : c \in Range(s.selectionSet)}
     ELSE {})

\* Every directive node of the document, whatever it is attached to.
DirectivesOf(doc) ==
    UNION {Range(def.directives)
           \cup UNION {Range(vd.directives) : vd \in Range(def.variableDefinitions)}
           \cup UNION {DirectivesOfSelection(c) : c \in Range(def.selectionSet)} :
           def \in Range(doc.definitions)}

\* The names the variable definitions of the document declare.
DefinedIn(doc) ==
    UNION {{vd.variable.name : vd \in Range(def.variableDefinitions)} :
           def \in Range(doc.definitions)}

RefsOfValue(v) ==
    IF v.kind = "Variable" THEN {v.name}
    ELSE IF v.kind = "ListValue" THEN {w.name : w \in Range(v.values)}
    ELSE {}

RefsOfArguments(as) == UNION {RefsOfValue(a.value) : a \in Range(as)}

\* mode "all": every reference; "retained": those not under an internal
\* directive; "internal": those under an internal directive.
RefsOfDirectives(ds, mode) ==
    UNION {RefsOfArguments(d.arguments) :
           d \in {d \in Range(ds) :
                     \/ mode = "all"
                     \/ mode = "retained" /\ d.name \notin InternalNames
                     \/ mode = "internal" /\ d.name \in InternalNames}}

RECURSIVE RefsOfSelection(_, _)
RefsOfSelection(s, mode) ==
    RefsOfDirectives(s.directives, mode)
    \cup (IF s.kind = "Field" /\ mode # "internal"
          THEN RefsOfArguments(s.arguments) ELSE {})
    \cup (IF s.kind \in {"Field", "InlineFragment"}
          THEN UNION {RefsOfSelection(c, mode) : c \in Range(s.selectionSet)}
          ELSE {})

\* The names of the non-defining variable references of the document.
RefsOf(doc, mode) ==
    UNION {RefsOfDirectives(def.directives, mode)
           \cup UNION {RefsOfDirectives(vd.directives, mode) :
                          vd \in Range(def.variableDefinitions)}
           \cup UNION {RefsOfSelection(c, mode) : c \in Range(def.selectionSet)} :
           def \in Range(doc.definitions)}

HasInternal(ds) == \E d \in Range(ds) : d.name \in InternalNames

(***************************************************************************)
(* C1.  The document scrubSelection returns holds no directive node that   *)
(* isInternalDirective accepts, whether the directive was attached to the  *)
(* operation, a variable definition, a field, a fragment spread or an      *)
(* inline fragment.                                                        *)
(***************************************************************************)
ScrubLeavesNoInternalDirective ==
    scrubPc = "done" =>
        \A d \in DirectivesOf(scrubbed) : ~isInternalDirective(d)

\* A scrubbed document that carried an internal directive on its operation,
\* on a variable definition, on an inline fragment and on the field under it.
ScrubbedInternalAtEveryDepth ==
    /\ scrubPc = "done"
    /\ LET def == document.definitions[1]
           sel == def.selectionSet[1]
       IN  /\ HasInternal(def.directives)
           /\ \E vd \in Range(def.variableDefinitions) : HasInternal(vd.directives)
           /\ sel.kind = "InlineFragment"
           /\ HasInternal(sel.directives)
           /\ HasInternal(sel.selectionSet[1].directives)

(***************************************************************************)
(* C2.  A variable definition is kept exactly when its name has a          *)
(* non-defining reference that is not under a removed internal directive:  *)
(* every definition of the output has a reference in the output, and the   *)
(* output declares the declared names that have a retained reference, no   *)
(* other.                                                                  *)
(***************************************************************************)
ScrubKeepsExactlyUsedDefinitions ==
    scrubPc = "done" =>
        /\ DefinedIn(scrubbed) \subseteq RefsOf(scrubbed, "all")
        /\ DefinedIn(scrubbed) = DefinedIn(document) \cap RefsOf(document, "retained")
        /\ \A v \in DefinedIn(document) :
              v \in RefsOf(document, "all") /\ v \notin RefsOf(document, "retained")
                  => v \notin DefinedIn(scrubbed)

\* A variable referenced under an internal directive and in a retained field
\* argument, whose definition was kept.
ScrubbedKeepsVariableUsedTwice ==
    /\ scrubPc = "done"
    /\ \E v \in DefinedIn(scrubbed) :
          /\ v \in RefsOf(document, "internal")
          /\ v \in RefsOf(document, "retained")

(***************************************************************************)
(* C3, as claimed.  On a document without internal directives              *)
(* scrubSelection returns the document unchanged, also when the document   *)
(* declares a variable that is never referenced.                           *)
(***************************************************************************)
ScrubWithoutInternalIsNoOp ==
    (scrubPc = "done" /\ \A d \in DirectivesOf(document) : ~isInternalDirective(d))
        => scrubbed = document

\* The document with the variable definitions of the names in keep alone.
WithDefinitionsOf(doc, keep) ==
    [doc EXCEPT !.definitions = [i \in DOMAIN @ |->
        [@[i] EXCEPT !.variableDefinitions =
            SelectSeq(@, LAMBDA vd : vd.variable.name \in keep)]]]

(***************************************************************************)
(* C3, amended.  On a document without internal directives scrubSelection  *)
(* keeps every directive and selection and removes the definitions of the  *)
(* variables that are never referenced, those alone: it returns the        *)
(* document unchanged when every declared variable is referenced.          *)
(***************************************************************************)
ScrubWithoutInternalDropsUnreferenced ==
    (scrubPc = "done" /\ \A d \in DirectivesOf(document) : ~isInternalDirective(d))
        => /\ scrubbed = WithDefinitionsOf(document, RefsOf(document, "all"))
           /\ DefinedIn(document) \subseteq RefsOf(document, "all")
                  => scrubbed = document

\* A document without internal directives, with a directive that stays and a
\* declared variable that is never referenced, after the call.
ScrubbedUnreferencedWithoutInternal ==
    /\ scrubPc = "done"
    /\ DirectivesOf(document) # {}
    /\ \A d \in DirectivesOf(document) : ~isInternalDirective(d)
    /\ ~(DefinedIn(document) \subseteq RefsOf(document, "all"))
    /\ scrubbed # document

(***************************************************************************)
(* C4.  The root type, exported under the operation's name, has exactly    *)
(* the read-only fields input and result: input is <Name>$input when the   *)
(* operation declares a variable and null otherwise; result is             *)
(* <Name>$result for a mutation and <Name>$result | undefined for a query  *)
(* or a subscription.                                                      *)
(***************************************************************************)
RootTypeHasInputAndResult ==
    (typesPc = "done" /\ program.ok) =>
        LET name == definition.name
            roots == SelectSeq(program.body,
                        LAMBDA decl : decl.type = "ExportNamedDeclaration"
                                      /\ decl.id = name)
            members == roots[1].typeAnnotation.members
            resultRef == [type |-> "TSTypeReference", typeName |-> name \o "$result"]
        IN  /\ Len(roots) = 1
            /\ roots[1].typeAnnotation.type = "TSTypeLiteral"
            /\ Len(members) = 2
            /\ \A i \in 1..2 : members[i].readonly /\ ~members[i].optional
            /\ members[1].key = "input"
            /\ members[1].typeAnnotation =
                  IF definition.variableDefinitions # <<>>
                  THEN [type |-> "TSTypeReference", typeName |-> name \o "$input"]
                  ELSE [type |-> "TSNullKeyword"]
            /\ members[2].key = "result"
            /\ members[2].typeAnnotation =
                  IF definition.operation = "mutation"
                  THEN resultRef
                  ELSE [type |-> "TSUnionType",
                        types |-> <<resultRef, [type |-> "TSUndefinedKeyword"]>>]

\* The program of a mutation without variables.
GeneratedMutationWithoutVariables ==
    /\ typesPc = "done"
    /\ program.ok
    /\ definition.operation = "mutation"
    /\ definition.variableDefinitions = <<>>

OperationSuffix ==
    [query |-> "Query", mutation |-> "Mutation", subscription |-> "Subscription"]

(***************************************************************************)
(* C5.  The exported declarations are the root type and <Name>$result,     *)
(* <Name>$input (the alias of <Name><Operation>Variables) exactly when the *)
(* operation declares a variable, and <Name>$afterLoad exactly when the    *)
(* operation is a query, with the fields input then data when the query    *)
(* has variables and data alone otherwise.                                 *)
(***************************************************************************)
ExportsFollowKindAndVariables ==
    (typesPc = "done" /\ program.ok) =>
        LET name == definition.name
            hasVariables == definition.variableDefinitions # <<>>
            exports == SelectSeq(program.body,
                          LAMBDA decl : decl.type = "ExportNamedDeclaration")
            ids == {exports[i].id : i \in DOMAIN exports}
            Export(id) == CHOOSE e \in Range(exports) : e.id = id
            shape == name \o OperationSuffix[definition.operation]
        IN  /\ Cardinality(ids) = Len(exports)
            /\ ids = {name, name \o "$result"}
                     \cup (IF hasVariables THEN {name \o "$input"} ELSE {})
                     \cup (IF definition.operation = "query"
                           THEN {name \o "$afterLoad"} ELSE {})
            /\ Export(name \o "$result").typeAnnotation =
                  [type |-> "TSTypeReference", typeName |-> shape]
            /\ hasVariables =>
                  Export(name \o "$input").typeAnnotation =
                      [type |-> "TSTypeReference", typeName |-> shape \o "Variables"]
            /\ definition.operation = "query" =>
                  LET members == Export(name \o "$afterLoad").typeAnnotation.members
                  IN  [i \in DOMAIN members |-> members[i].key] =
                          IF hasVariables THEN <<"input", "data">> ELSE <<"data">>

\* The program of a query with variables.
GeneratedQueryWithVariables ==
    /\ typesPc = "done"
    /\ program.ok
    /\ definition.operation = "query"
    /\ definition.variableDefinitions # <<>>
    /\ Len(program.body) = 6

Flagged == {d \in DOMAIN docs : docs[d].generateArtifact}

IndexSourceOf(doc) == <<".", "/", "artifacts", "/", doc.name>>

(***************************************************************************)
(* C6.  The index manifest a run writes holds one re-export per document   *)
(* flagged generateArtifact, none for the others, and then ./runtime and   *)
(* ./stores as its last two entries.                                       *)
(***************************************************************************)
IndexListsFlaggedThenFixed ==
    typeIndexPath \in written =>
        LET body == files[typeIndexPath].code
            n == Len(body)
        IN  /\ n = Cardinality(Flagged) + 2
            /\ body[n - 1] = [type |-> "ExportAllDeclaration",
                              source |-> <<".", "/", "runtime">>]
            /\ body[n] = [type |-> "ExportAllDeclaration",
                          source |-> <<".", "/", "stores">>]
            /\ \A d \in DOMAIN docs :
                  Cardinality({i \in 1..(n - 2) : body[i].source = IndexSourceOf(docs[d])})
                      = IF d \in Flagged THEN 1 ELSE 0

\* An index written for a flagged and an unflagged document.
IndexWrittenForMixedDocs ==
    /\ typeIndexPath \in written
    /\ Flagged # {}
    /\ Flagged # DOMAIN docs

(***************************************************************************)
(* C7.  The second run over the same documents and schema writes the       *)
(* index manifest the first run wrote, whatever the order in which the     *)
(* writes of the per-document tasks complete.                              *)
(***************************************************************************)
SecondRunWritesSameIndex ==
    (run = "second" /\ typeIndexPath \in written) => files[typeIndexPath] = prevIndex

(***************************************************************************)
(* C8.  The phases are ordered: no callback of docs.map has synthesized or *)
(* written anything before codegen resolved and the internal file was      *)
(* written; the index is built and written only when every callback has    *)
(* completed; when codegen fails nothing is written at all.                *)
(***************************************************************************)
PhasesAreOrdered ==
    /\ \A d \in DOMAIN docs :
          (task[d] # "idle" \/ outcome[d] # Null
              \/ artifactTypePath(docs[d].originalDocument) \in written)
          => /\ typeDefinitionsFile # Null
             /\ internalTypeDefinitionFile \in written
    /\ (typeIndex # Null \/ typeIndexPath \in written)
          => \A d \in DOMAIN docs : task[d] \in {"returned", "done"}
    /\ failure = "codegen"
          => /\ written = {}
             /\ typeIndex = Null
             /\ \A d \in DOMAIN docs : task[d] = "idle"

\* A run that completed with two type-definition files written.
RunDoneWithTwoFiles ==
    /\ main = "done"
    /\ Cardinality(Flagged) >= 2
    /\ Cardinality(written) >= 4

(***************************************************************************)
(* C9.  When a callback of docs.map has failed, the run fails and the      *)
(* index is neither built nor written; the other callbacks are not         *)
(* canceled (a pending write still completes, also after the run failed),  *)
(* and the files written stay.                                             *)
(***************************************************************************)
FailedTaskFailsRunOthersContinue ==
    /\ (\E d \in DOMAIN docs : task[d] = "failed")
          => /\ main \in {"waiting", "failed"}
             /\ typeIndex = Null
             /\ typeIndexPath \notin written
             /\ (main = "waiting" /\ \A d \in DOMAIN docs : task[d] # "awaitProgram")
                    => ENABLED AwaitRejects
    /\ \A d \in DOMAIN docs :
          (main = "failed" /\ task[d] = "writing") => ENABLED TaskFileWritten(d)
    /\ \A p \in written : p \in DOMAIN files

\* A run that failed on one callback while another wrote its file afterwards.
FileWrittenAfterTaskFailure ==
    /\ main = "failed"
    /\ failure = "task"
    /\ \E d \in lateWrites :
          /\ task[d] = "done"
          /\ artifactTypePath(docs[d].originalDocument) \in DOMAIN files

\* The outcome of synthesizing from the definition of the document's name and
\* kind.
ByNameAndKind(doc) ==
    LET wanted == IF doc.kind = "operation" THEN "OperationDefinition"
                  ELSE "FragmentDefinition"
        hits == SelectSeq(doc.originalDocument.definitions,
                    LAMBDA def : def.name = doc.name /\ def.kind = wanted)
    IN  IF hits = <<>> THEN Null
        ELSE IF doc.kind = "operation"
             THEN generateOperationTypeDefs(schema, hits[1])
             ELSE generateFragmentTypeDefs(schema, hits[1])

(***************************************************************************)
(* C10.  The program of a flagged document is synthesized from the         *)
(* definition of the original document that has the document's name and    *)
(* kind, by the synthesizer of that kind; without a definition of that     *)
(* name the callback fails.                                                *)
(***************************************************************************)
SynthesisUsesNameAndKind ==
    \A d \in DOMAIN docs :
        (docs[d].generateArtifact /\ outcome[d] # Null) =>
            IF \E def \in Range(docs[d].originalDocument.definitions) :
                   def.name = docs[d].name
            THEN outcome[d] = ByNameAndKind(docs[d])
            ELSE ~outcome[d].ok
====
